---- MODULE Spec2Model ----
(***************************************************************************)
(* A model of the investment tracker's request handlers (src/app.py):      *)
(* the investments table, the handlers that change it (add_investment,     *)
(* edit_investment, delete_investment, import_csv), the CSV export and    *)
(* the dashboard valuation.                                                *)
(*                                                                         *)
(* Text is a sequence of one-character strings, so that strip(), upper(),  *)
(* float() and the float-to-text conversion of csv.writer are computed     *)
(* character by character.  A float is an integer number of thousandths    *)
(* (a "milli" value); a product of two floats is a number of millionths.   *)
(***************************************************************************)
EXTENDS Integers, Sequences, FiniteSets, TLC

\* ------------------------------------------------------------------------
\* Bounds of the model
\* ------------------------------------------------------------------------

\* Row ids the table can hold: 1..MaxId.
MaxId == 2

Ids == 1..MaxId

\* The logged-in users (session["user_id"]): two accounts.
Users == {1, 2}

\* ------------------------------------------------------------------------
\* Text: str.strip(), str.upper(), float(), repr(float)
\* ------------------------------------------------------------------------

\* Thousandths per unit, and millionths per hundredth.
Scale == 10 * 10 * 10
CentInMicro == 10 * Scale

Digits == <<"0", "1", "2", "3", "4", "5", "6", "7", "8", "9">>

IsDigit(c) == \E i \in 1..Len(Digits) : Digits[i] = c

DigitVal(c) == (CHOOSE i \in 1..Len(Digits) : Digits[i] = c) - 1

RECURSIVE LStrip(_)
LStrip(s) ==
    IF s = <<>> THEN s
    ELSE IF Head(s) = " " THEN LStrip(Tail(s)) ELSE s

RECURSIVE RStrip(_)
RStrip(s) ==
    IF s = <<>> THEN s
    ELSE IF s[Len(s)] = " " THEN RStrip(SubSeq(s, 1, Len(s) - 1)) ELSE s

\* str.strip()
Strip(s) == RStrip(LStrip(s))

UpperChar(c) ==
    CASE c = "a" -> "A"
      [] c = "b" -> "B"
      [] c = "t" -> "T"
      [] c = "x" -> "X"
      [] OTHER -> c

\* str.upper()
Upper(s) == [i \in 1..Len(s) |-> UpperChar(s[i])]

\* The value of a string of digits.
RECURSIVE DigitsVal(_)
DigitsVal(s) ==
    IF s = <<>> THEN 0
    ELSE 10 * DigitsVal(SubSeq(s, 1, Len(s) - 1)) + DigitVal(s[Len(s)])

AllDigits(s) == \A i \in 1..Len(s) : IsDigit(s[i])

\* A fraction's digits as thousandths: "5" is 500, "33" is 330, "333" is 333.
RECURSIVE FracVal(_, _)
FracVal(s, unit) ==
    IF s = <<>> \/ unit = 0 THEN 0
    ELSE DigitVal(Head(s)) * unit + FracVal(Tail(s), unit \div 10)

ValueError == [ok |-> FALSE, v |-> 0]

\* float(text) for decimal text: surrounding blanks, a sign, digits and at
\* most one point, with a digit on one side of it at least.  Anything else
\* raises ValueError.
ParseFloat(text) ==
    LET t == Strip(text)
        signed == t # <<>> /\ Head(t) \in {"-", "+"}
        neg == t # <<>> /\ Head(t) = "-"
        body == IF signed THEN Tail(t) ELSE t
        dots == {i \in 1..Len(body) : body[i] = "."}
        dot == IF dots = {} THEN Len(body) + 1 ELSE CHOOSE i \in dots : TRUE
        ip == SubSeq(body, 1, dot - 1)
        fp == SubSeq(body, dot + 1, Len(body))
        mag == DigitsVal(ip) * Scale + FracVal(fp, Scale \div 10)
    IN  IF /\ Cardinality(dots) <= 1
           /\ AllDigits(ip) /\ AllDigits(fp)
           /\ Len(ip) + Len(fp) >= 1
           /\ Len(fp) <= 3
        THEN [ok |-> TRUE, v |-> IF neg THEN 0 - mag ELSE mag]
        ELSE ValueError

\* The digits of a natural number.
RECURSIVE NatText(_)
NatText(n) ==
    IF n < 10 THEN <<Digits[n + 1]>>
    ELSE NatText(n \div 10) \o <<Digits[(n % 10) + 1]>>

\* The fraction digits of m thousandths, trailing zeros dropped, one kept.
FracText(m) ==
    LET d1 == m \div 100
        d2 == (m \div 10) % 10
        d3 == m % 10
    IN  IF d3 # 0 THEN <<Digits[d1 + 1], Digits[d2 + 1], Digits[d3 + 1]>>
        ELSE IF d2 # 0 THEN <<Digits[d1 + 1], Digits[d2 + 1]>>
        ELSE <<Digits[d1 + 1]>>

\* str(float), which csv.writer writes for a REAL column's value:
\* 1500 thousandths is "1.5", 2000 is "2.0", -3000 is "-3.0".
Repr(v) ==
    LET mag == IF v < 0 THEN 0 - v ELSE v
    IN  (IF v < 0 THEN <<"-">> ELSE <<>>)
        \o NatText(mag \div Scale) \o <<".">> \o FracText(mag % Scale)

\* ------------------------------------------------------------------------
\* State
\* ------------------------------------------------------------------------

VARIABLES
    investments,  \* the investments table: a set of rows
    pending,      \* per user, the id an edit_investment request has SELECTed
                  \* and not yet UPDATEd (0: no such request in flight)
    download,     \* per user, the last portfolio.csv export_csv returned
                  \* and the table rows it was written from
    response      \* the last response a handler returned

vars == <<investments, pending, download, response>>

\* A CSV document as csv.DictReader sees it: the header's column names and
\* the data rows, each a sequence of fields (text).
NoFile == [header |-> <<>>, rows |-> <<>>, present |-> FALSE]

CsvFile(header, rows) == [header |-> header, rows |-> rows, present |-> TRUE]

\* A row of the table.
Row(id, user_id, symbol, category, quantity, buy_price) ==
    [id |-> id, user_id |-> user_id, symbol |-> symbol, category |-> category,
     quantity |-> quantity, buy_price |-> buy_price]

\* The columns export_csv selects and import_csv inserts.
Fields(r) == <<r.symbol, r.category, r.quantity, r.buy_price>>

UsedIds(table) == {r.id : r \in table}

\* The ids an INSERT may give a new row: any id no row of the table has.
\* The table's schema (models.init_db) decides whether a deleted row's id
\* is given out again; the handlers rely on no more than uniqueness.
FreeIds(table) == Ids \ UsedIds(table)

\* The rows of `table` owned by `u`, in rowid order (SELECT ... WHERE user_id = ?).
RECURSIVE InIdOrder(_)
InIdOrder(rows) ==
    IF rows = {} THEN <<>>
    ELSE LET first == CHOOSE r \in rows : \A o \in rows : r.id <= o.id
         IN  <<first>> \o InIdOrder(rows \ {first})

SelectByUser(table, u) == InIdOrder({r \in table : r.user_id = u})

\* A response: the handler, the HTTP status, the flashed
\* message, the uncaught exception's class ("" when none), the row number
\* the response names (0: it names none) and the body.
Resp(op, status, flash, error, body) ==
    [op |-> op, status |-> status, flash |-> flash,
     error |-> error, row |-> 0, body |-> body]

Init ==
    /\ investments = {}
    /\ pending = [u \in Users |-> 0]
    /\ download = [u \in Users |-> [file |-> NoFile, rows |-> <<>>]]
    /\ response = Resp("none", 0, "", "", <<>>)

\* ------------------------------------------------------------------------
\* add_investment
\* ------------------------------------------------------------------------

\* An INSERT that merges: a row of the user with the same symbol takes the
\* new quantity and buy_price, and no row is added.
InsertOrMerge(table, id, u, values) ==
    IF \E r \in table : r.user_id = u /\ r.symbol = values[1]
    THEN {IF r.user_id = u /\ r.symbol = values[1]
          THEN [r EXCEPT !.quantity = values[3], !.buy_price = values[4]]
          ELSE r : r \in table}
    ELSE table \cup {Row(id, u, values[1], values[2], values[3], values[4])}

\* INSERT INTO investments (...) VALUES (...) and commit, the new row's id
\* being `id`.
Insert(table, id, u, values) ==
    table \cup {Row(id, u, values[1], values[2], values[3], values[4])}

\* POST /add_investment with the form's four fields.
AddInvestment(u, symbol, category, quantity, buy_price) ==
    LET sym == Upper(Strip(symbol))
        cat == Strip(category)
        q == ParseFloat(quantity)
        p == ParseFloat(buy_price)
    IN  /\ UNCHANGED <<pending, download>>
        /\ IF ~q.ok \/ ~p.ok
           THEN /\ response' = Resp("add_investment", 500, "", "ValueError", <<>>)
                /\ UNCHANGED investments
           ELSE \E id \in FreeIds(investments) :
                /\ investments' = Insert(investments, id, u, <<sym, cat, q.v, p.v>>)
                /\ response' = Resp("add_investment", 302, "Investment added!", "", <<>>)

\* ------------------------------------------------------------------------
\* edit_investment
\* ------------------------------------------------------------------------

\* SELECT * FROM investments WHERE id = ? AND user_id = ?
SelectOwned(table, id, u) == {r \in table : r.id = id /\ r.user_id = u}

\* An UPDATE without its WHERE clause: every row is set.
UpdateEveryRow(table, id, quantity, buy_price) ==
    {[r EXCEPT !.quantity = quantity, !.buy_price = buy_price] : r \in table}

\* UPDATE investments SET quantity = ?, buy_price = ? WHERE id = ?
Update(table, id, quantity, buy_price) ==
    {IF r.id = id
     THEN [r EXCEPT !.quantity = quantity, !.buy_price = buy_price]
     ELSE r : r \in table}

\* The handler's first statement: the ownership SELECT.  Without a row the
\* request ends here; with one, the handler goes on to its second step.
EditSelect(u, id) ==
    /\ pending[u] = 0
    /\ UNCHANGED <<investments, download>>
    /\ IF SelectOwned(investments, id, u) = {}
       THEN /\ response' = Resp("edit_investment", 302, "Investment not found.", "", <<>>)
            /\ UNCHANGED pending
       ELSE /\ pending' = [pending EXCEPT ![u] = id]
            /\ UNCHANGED response

\* GET: the form is rendered from the selected row.
EditRender(u) ==
    /\ pending[u] # 0
    /\ pending' = [pending EXCEPT ![u] = 0]
    /\ response' = Resp("edit_investment", 200, "", "", <<>>)
    /\ UNCHANGED <<investments, download>>

\* POST: the form's fields are converted, then the UPDATE runs and commits.
EditUpdate(u, quantity, buy_price) ==
    LET q == ParseFloat(quantity)
        p == ParseFloat(buy_price)
    IN  /\ pending[u] # 0
        /\ pending' = [pending EXCEPT ![u] = 0]
        /\ UNCHANGED download
        /\ IF ~q.ok \/ ~p.ok
           THEN /\ response' = Resp("edit_investment", 500, "", "ValueError", <<>>)
                /\ UNCHANGED investments
           ELSE /\ investments' = Update(investments, pending[u], q.v, p.v)
                /\ response' = Resp("edit_investment", 302, "Investment updated!", "", <<>>)

\* ------------------------------------------------------------------------
\* delete_investment
\* ------------------------------------------------------------------------

\* DELETE FROM investments WHERE id = ? AND user_id = ?
Delete(table, id, u) == {r \in table : ~(r.id = id /\ r.user_id = u)}

DeleteInvestment(u, id) ==
    /\ investments' = Delete(investments, id, u)
    /\ response' = Resp("delete_investment", 302, "Investment deleted.", "", <<>>)
    /\ UNCHANGED <<pending, download>>

\* ------------------------------------------------------------------------
\* export_csv
\* ------------------------------------------------------------------------

CsvHeader == <<"symbol", "category", "quantity", "buy_price">>

\* csv.writer's row for a table row: the text columns as stored, the float
\* columns as str(float).
CsvRow(r) == <<r.symbol, r.category, Repr(r.quantity), Repr(r.buy_price)>>

\* The document export_csv writes for the rows its SELECT returned.
Serialize(rows) == CsvFile(CsvHeader, [i \in 1..Len(rows) |-> CsvRow(rows[i])])

ExportCsv(u) ==
    LET rows == SelectByUser(investments, u)
        doc == Serialize(rows)
    IN  /\ download' = [download EXCEPT ![u] = [file |-> doc, rows |-> rows]]
        /\ response' = Resp("export_csv", 200, "", "", doc)
        /\ UNCHANGED <<investments, pending>>

\* ------------------------------------------------------------------------
\* import_csv
\* ------------------------------------------------------------------------

\* csv.DictReader's value for column `name` of a data row: the field under
\* that header, None (some = FALSE) when the row is too short, and no key at
\* all (has = FALSE) when the header lacks the column.
Column(header, row, name) ==
    LET at == {i \in 1..Len(header) : header[i] = name}
        i == CHOOSE j \in at : \A k \in at : k <= j
    IN  IF at = {} THEN [has |-> FALSE, some |-> FALSE, v |-> <<>>]
        ELSE IF i > Len(row) THEN [has |-> TRUE, some |-> FALSE, v |-> <<>>]
        ELSE [has |-> TRUE, some |-> TRUE, v |-> row[i]]

\* row.get(name) is falsy: None or the empty string.
Falsy(col) == ~col.some \/ col.v = <<>>

\* float(row[name]): KeyError without the column, TypeError on None,
\* ValueError on text that is no number.
FloatColumn(col) ==
    IF ~col.has THEN [error |-> "KeyError", v |-> 0]
    ELSE IF ~col.some THEN [error |-> "TypeError", v |-> 0]
    ELSE LET f == ParseFloat(col.v)
         IN  IF f.ok THEN [error |-> "", v |-> f.v]
             ELSE [error |-> "ValueError", v |-> 0]

\* The symbol test of the loop: the row is skipped when it holds.
SkipsRow(header, row) == Falsy(Column(header, row, "symbol"))

\* The loop over the reader's rows from data row k on, `inserted` being the
\* value tuples INSERTed so far in the open transaction.  It ends with the
\* exception's class and the data row that raised it, or with "" and 0.
RECURSIVE ImportLoop(_, _, _, _)
ImportLoop(header, rows, k, inserted) ==
    IF k > Len(rows) THEN [error |-> "", at |-> 0, inserted |-> inserted]
    ELSE LET row == rows[k]
             category == Column(header, row, "category")
             q == FloatColumn(Column(header, row, "quantity"))
             p == FloatColumn(Column(header, row, "buy_price"))
         IN  IF row = <<>> \/ SkipsRow(header, row)
             THEN ImportLoop(header, rows, k + 1, inserted)
             ELSE IF q.error # ""
             THEN [error |-> q.error, at |-> k, inserted |-> inserted]
             ELSE IF p.error # ""
             THEN [error |-> p.error, at |-> k, inserted |-> inserted]
             ELSE ImportLoop(header, rows, k + 1, Append(inserted,
                    <<Upper(Strip(Column(header, row, "symbol").v)),
                      IF Falsy(category) THEN <<>> ELSE Strip(category.v),
                      q.v, p.v>>))

\* A commit after every INSERT: the rows before the failing one persist.
CommittedEachRow(run) == run.inserted

\* What the transaction persists: conn.commit() follows the loop, so an
\* exception in the loop leaves the connection uncommitted and its INSERTs
\* are rolled back.
Committed(run) == IF run.error = "" THEN run.inserted ELSE <<>>

\* The table after INSERTing the value tuples `values` under the ids `ids`.
RECURSIVE InsertAll(_, _, _, _)
InsertAll(table, ids, u, values) ==
    IF values = <<>> THEN table
    ELSE InsertAll(Insert(table, Head(ids), u, Head(values)), Tail(ids), u, Tail(values))

\* Sequences of n distinct ids of S.
IdSeqs(S, n) ==
    {s \in [1..n -> S] : \A i, j \in 1..n : i # j => s[i] # s[j]}

\* POST /import_csv with the uploaded file.
ImportCsv(u, file) ==
    /\ UNCHANGED <<pending, download>>
    /\ IF ~file.present
       THEN /\ response' = Resp("import_csv", 302, "No file selected.", "", <<>>)
            /\ UNCHANGED investments
       ELSE LET run == ImportLoop(file.header, file.rows, 1, <<>>)
                values == Committed(run)
            IN  /\ \E ids \in IdSeqs(FreeIds(investments), Len(values)) :
                     investments' = InsertAll(investments, ids, u, values)
                /\ response' =
                     IF run.error = ""
                     THEN Resp("import_csv", 302, "CSV imported successfully!", "", <<>>)
                     ELSE Resp("import_csv", 500, "", run.error, <<>>)

\* ------------------------------------------------------------------------
\* dashboard
\* ------------------------------------------------------------------------

\* round(x, 2) of a number of millionths, the result in millionths: to the
\* nearest hundredth, a tie to the even one.
Round2(x) ==
    LET lo == x \div CentInMicro
        rest == x % CentInMicro
        half == CentInMicro \div 2
        cents == IF rest < half THEN lo
                 ELSE IF rest > half THEN lo + 1
                 ELSE IF lo % 2 = 0 THEN lo ELSE lo + 1
    IN  cents * CentInMicro

\* The outcomes of yf.Ticker(symbol).history(period="1d").
Raises == [kind |-> "raises", close |-> 0]
Empty == [kind |-> "empty", close |-> 0]
Close(price) == [kind |-> "close", close |-> price]

\* A live_price that falls back to 1.0 when the history is empty.
LivePriceOneWhenEmpty(quote) ==
    IF quote.kind = "close" THEN quote.close
    ELSE IF quote.kind = "empty" THEN Scale ELSE 0

\* live_price, in thousandths: the last close, 0.0 when the history is empty
\* or the lookup raised.
LivePrice(quote) == IF quote.kind = "close" THEN quote.close ELSE 0

\* The dashboard's entry for one row, its computed fields in millionths.
Valued(r, quote) ==
    LET live == LivePrice(quote)
        current_value == r.quantity * live
        cost == r.quantity * r.buy_price
    IN  [id |-> r.id, symbol |-> r.symbol, category |-> r.category,
         quantity |-> r.quantity, buy_price |-> r.buy_price,
         current_price |-> Round2(live * Scale),
         value |-> Round2(current_value),
         profit_loss |-> Round2(current_value - cost)]

\* total_value and total_cost as the loop accumulates them, unrounded.
RECURSIVE SumValue(_, _)
SumValue(rows, quotes) ==
    IF rows = <<>> THEN 0
    ELSE Head(rows).quantity * LivePrice(Head(quotes))
         + SumValue(Tail(rows), Tail(quotes))

RECURSIVE SumCost(_)
SumCost(rows) ==
    IF rows = <<>> THEN 0
    ELSE Head(rows).quantity * Head(rows).buy_price + SumCost(Tail(rows))

\* category_totals' keys, in first-seen order.
RECURSIVE CategoryLabels(_)
CategoryLabels(entries) ==
    IF entries = <<>> THEN <<>>
    ELSE LET before == CategoryLabels(SubSeq(entries, 1, Len(entries) - 1))
             c == entries[Len(entries)].category
         IN  IF \E i \in 1..Len(before) : before[i] = c THEN before
             ELSE Append(before, c)

\* category_totals[c]: the entries' rounded values added up.
RECURSIVE CategoryTotal(_, _)
CategoryTotal(entries, c) ==
    IF entries = <<>> THEN 0
    ELSE (IF Head(entries).category = c THEN Head(entries).value ELSE 0)
         + CategoryTotal(Tail(entries), c)

\* What the dashboard hands to its template, for the rows selected and the
\* outcome of each row's price lookup.
Snapshot(rows, quotes) ==
    LET entries == [i \in 1..Len(rows) |-> Valued(rows[i], quotes[i])]
        total_value == SumValue(rows, quotes)
        total_cost == SumCost(rows)
        labels == CategoryLabels(entries)
    IN  [investments |-> entries,
         total_value |-> Round2(total_value),
         total_cost |-> Round2(total_cost),
         profit_loss |-> Round2(total_value - total_cost),
         category_labels |-> labels,
         category_values |-> [i \in 1..Len(labels) |-> CategoryTotal(entries, labels[i])]]

\* GET /dashboard, `quotes` being the outcomes of the price lookups, one per
\* row and in the rows' order.
Dashboard(u, quotes) ==
    LET rows == SelectByUser(investments, u)
    IN  /\ Len(quotes) = Len(rows)
        /\ response' = Resp("dashboard", 200, "", "", Snapshot(rows, quotes))
        /\ UNCHANGED <<investments, pending, download>>

\* ------------------------------------------------------------------------
\* Requests
\* ------------------------------------------------------------------------

\* The forms posted to add_investment: symbol, category, quantity, buy_price.
AddForms ==
    {<<"a">>, <<" ">>} \X {<<" ", "t">>} \X {<<"2">>, <<"x">>}
        \X {<<"1", ".", "5">>}

\* The forms posted to edit_investment: quantity, buy_price.
EditForms == {<<"-", "3">>, <<"x">>} \X {<<"1", ".", "5">>}

\* Uploads: the same row twice; a good row, then a row whose quantity is no
\* number; a row whose symbol is blanks, a row whose symbol is empty and a
\* blank line.
GoodRow == << <<"a">>, <<"t">>, <<"2">>, <<"1", ".", "5">> >>

FileTwice == CsvFile(CsvHeader, <<GoodRow, GoodRow>>)

FileBadQuantity ==
    CsvFile(CsvHeader, <<GoodRow, << <<"b">>, <<"t">>, <<"x">>, <<"1", ".", "5">> >> >>)

FileBlankSymbols ==
    CsvFile(CsvHeader,
            << << <<" ">>, <<"t">>, <<"2">>, <<"1", ".", "5">> >>,
               << <<>>, <<"t">>, <<"2">>, <<"1", ".", "5">> >>,
               <<>> >>)

Uploads == {NoFile, FileTwice, FileBadQuantity, FileBlankSymbols}

\* The outcomes of one price lookup.
Quotes == {Raises, Empty, Close(4)}

\* The forms posted to add_investment before an export.
CsvForms ==
    {<<"a">>, <<" ">>} \X {<<" ", "t">>} \X {<<"2">>, <<"-", "3">>}
        \X {<<"0", ".", "3", "3", "3">>}

\* The sequences of lookup outcomes a dashboard request can meet.
QuoteSeqs == UNION {[1..n -> Quotes] : n \in 0..MaxId}

\* The forms posted to add_investment before a dashboard request.
DashForms ==
    {<<"a">>} \X {<<"t">>, <<"x">>} \X {<<"1">>, <<"1", ".", "5">>}
        \X {<<"0", ".", "3", "3", "3">>}

\* ------------------------------------------------------------------------
\* Specifications
\* ------------------------------------------------------------------------

\* The handlers that change the table, requests of the two users interleaved.
Next ==
    \/ \E u \in Users, f \in AddForms : AddInvestment(u, f[1], f[2], f[3], f[4])
    \/ \E u \in Users, id \in Ids : EditSelect(u, id)
    \/ \E u \in Users : EditRender(u)
    \/ \E u \in Users, f \in EditForms : EditUpdate(u, f[1], f[2])
    \/ \E u \in Users, id \in Ids : DeleteInvestment(u, id)
    \/ \E u \in Users, file \in Uploads : ImportCsv(u, file)

Spec == Init /\ [][Next]_vars

\* Export and re-import: the users fill the table, download portfolio.csv
\* and upload it as it is.
NextCsv ==
    \/ \E u \in Users, f \in CsvForms : AddInvestment(u, f[1], f[2], f[3], f[4])
    \/ \E u \in Users, id \in Ids : DeleteInvestment(u, id)
    \/ \E u \in Users : ExportCsv(u)
    \/ \E u \in Users : download[u].file.present /\ ImportCsv(u, download[u].file)

SpecCsv == Init /\ [][NextCsv]_vars

\* The dashboard over the tables add_investment builds.
NextDash ==
    \/ \E u \in Users, f \in DashForms : AddInvestment(u, f[1], f[2], f[3], f[4])
    \/ \E u \in Users, id \in Ids : DeleteInvestment(u, id)
    \/ \E u \in Users, quotes \in QuoteSeqs : Dashboard(u, quotes)

SpecDash == Init /\ [][NextDash]_vars

\* ------------------------------------------------------------------------
\* Properties
\* ------------------------------------------------------------------------

\* The steps that are a request of user u (for edit_investment, the step
\* that runs its UPDATE).
EditUpdateStep(u) ==
    /\ response'.op = "edit_investment"
    /\ \E f \in EditForms : EditUpdate(u, f[1], f[2])

DeleteStep(u) ==
    /\ response'.op = "delete_investment"
    /\ \E id \in Ids : DeleteInvestment(u, id)

\* The outcome of import_csv's loop over each upload.
UploadRuns == [file \in Uploads |-> ImportLoop(file.header, file.rows, 1, <<>>)]

RunOf(file) == UploadRuns[file]

\* The steps that are an import_csv request of user u with the file `file`.
ImportStep(u, file) ==
    /\ response'.op = "import_csv"
    /\ file.present
    /\ ImportCsv(u, file)

\* The same for an upload whose loop ends with the exception `error` ("": none).
UploadStep(u, file, error) ==
    /\ response'.op = "import_csv"
    /\ response'.error = error
    /\ file.present
    /\ RunOf(file).error = error
    /\ ImportCsv(u, file)

\* The steps that are a dashboard request of user u met by `quotes`.
DashboardStep(u, quotes) ==
    /\ response'.op = "dashboard"
    /\ Dashboard(u, quotes)

OwnedBy(table, u) == {r \in table : r.user_id = u}
NotOwnedBy(table, u) == {r \in table : r.user_id # u}

\* The rows a step adds to the table.
Added == investments' \ investments

\* A set of rows as a multiset of (symbol, category, quantity, buy_price).
BagOfRows(rows) ==
    [x \in {Fields(r) : r \in rows} |-> Cardinality({r \in rows : Fields(r) = x})]

SeqRange(seq) == {seq[i] : i \in 1..Len(seq)}

\* C1: an edit or delete request of user U changes or removes only rows whose
\* user_id is U: the rows of every other user are the same after the step.
C1_Isolation ==
    [][\A u \in Users :
         (EditUpdateStep(u) \/ DeleteStep(u))
            => NotOwnedBy(investments', u) = NotOwnedBy(investments, u)]_vars

\* C2: importing the file export_csv returned, unmodified, succeeds and adds
\* one row per exported row, the added rows being the exported rows as a
\* multiset of (symbol, category, quantity, buy_price).
C2_RoundTrip ==
    [][\A u \in Users :
         ImportStep(u, download[u].file)
            => /\ response'.error = ""
               /\ Cardinality(Added) = Len(download[u].rows)
               /\ BagOfRows(Added) = BagOfRows(SeqRange(download[u].rows))]_vars

\* C3: an import that fails on a data row whose quantity or buy_price is no
\* number persists none of the upload's rows: the table after the request
\* is the table before it.
C3_FailedImportPersistsNothing ==
    [][\A u \in Users, file \in Uploads :
         UploadStep(u, file, "ValueError")
            => investments' = investments]_vars

\* C3's case: an import has failed with ValueError (the only such upload
\* fails on its second data row, its first having been INSERTed), and the
\* table holds rows.
C3_Witness ==
    /\ response.op = "import_csv" /\ response.error = "ValueError"
    /\ RunOf(FileBadQuantity).at = 2
    /\ Len(RunOf(FileBadQuantity).inserted) = 1
    /\ investments # {}

\* C6: import_csv inserts no row with an empty symbol: a data row whose
\* symbol is empty once trimmed is skipped.
C6_ImportSkipsBlankSymbol ==
    [][\A u \in Users, file \in Uploads :
         ImportStep(u, file) => \A r \in Added : r.symbol # <<>>]_vars

\* C7: an import of a file with a data row whose quantity or buy_price is no
\* number answers with a MalformedRowError that names that row's number.
C7_MalformedRowError ==
    [][\A u \in Users, file \in Uploads :
         UploadStep(u, file, "ValueError")
            => /\ response'.error = "MalformedRowError"
               /\ response'.row = RunOf(file).at]_vars

\* The data rows of a file the loop does not skip.
KeptRows(file) ==
    {k \in 1..Len(file.rows) :
        file.rows[k] # <<>> /\ ~SkipsRow(file.header, file.rows[k])}

C9_HoldingInvariant ==
    \A r \in investments : r.quantity >= 0 /\ r.buy_price >= 0 /\ r.symbol # <<>>

\* The UPDATE step of an edit request keeps every row but the one with the
\* requested id, and keeps that row's id, user_id, symbol and category.
C10_UpdateFrame ==
    \A u \in Users :
        EditUpdateStep(u)
           => /\ UsedIds(investments') = UsedIds(investments)
              /\ \A r \in investments :
                   \E n \in investments' :
                      /\ n.id = r.id /\ n.user_id = r.user_id
                      /\ n.symbol = r.symbol /\ n.category = r.category
                      /\ r.id # pending[u] => n = r

\* An edit request whose ownership SELECT finds no row ends there.
C10_NotFoundFrame ==
    \A u \in Users, id \in Ids :
        (EditSelect(u, id) /\ SelectOwned(investments, id, u) = {})
           => investments' = investments /\ pending'[u] = 0

\* No step changes the user_id of a row.
C10_OwnerKept ==
    \A old \in investments, new \in investments' :
        new.id = old.id => new.user_id = old.user_id

RoundTripOfNamedRows ==
    [][\A u \in Users :
         (/\ ImportStep(u, download[u].file)
          /\ \A r \in SeqRange(download[u].rows) : r.symbol # <<>>)
            => /\ response'.error = ""
               /\ Cardinality(Added) = Len(download[u].rows)
               /\ BagOfRows(Added) = BagOfRows(SeqRange(download[u].rows))]_vars

Missing(quote) == quote.kind \in {"raises", "empty"}

\* The sum of f over the indices in S.
RECURSIVE SumOver(_, _)
SumOver(f, S) ==
    IF S = {} THEN 0
    ELSE LET i == CHOOSE j \in S : TRUE
         IN  f[i] + SumOver(f, S \ {i})

SumSeq(seq) == SumOver(seq, 1..Len(seq))

\* What C4 says of a dashboard request over `rows` met by `quotes`
\* and answered with `snap`, loss[i] being the profit_loss it gives for row
\* i when it has no price: one entry per row; 0 as price and value and
\* loss[i] as profit_loss where the lookup gave nothing; the other rows valued at
\* their close; total_cost the cost of all rows and total_value the value
\* of the priced rows.
Degrades(rows, quotes, snap, loss) ==
    LET priced == {i \in 1..Len(rows) : ~Missing(quotes[i])}
        worth == [i \in 1..Len(rows) |-> rows[i].quantity * quotes[i].close]
        cost == [i \in 1..Len(rows) |-> rows[i].quantity * rows[i].buy_price]
    IN  /\ Len(snap.investments) = Len(rows)
        /\ \A i \in 1..Len(rows) :
             /\ snap.investments[i].id = rows[i].id
             /\ IF Missing(quotes[i])
                THEN /\ snap.investments[i].current_price = 0
                     /\ snap.investments[i].value = 0
                     /\ snap.investments[i].profit_loss = loss[i]
                ELSE snap.investments[i].value = Round2(worth[i])
        /\ snap.total_value = Round2(SumOver(worth, priced))
        /\ snap.total_cost = Round2(SumOver(cost, 1..Len(rows)))

ExactLoss(rows) == [i \in 1..Len(rows) |-> 0 - rows[i].quantity * rows[i].buy_price]
RoundedLoss(rows) == [i \in 1..Len(rows) |-> Round2(ExactLoss(rows)[i])]

\* C4, as stated: a row whose price lookup gives no data or raises is shown
\* with current_price 0, value 0 and profit_loss -(quantity * buy_price),
\* the other rows are still valued and the row counts in the totals.
C4_MissingQuoteExact ==
    [][\A u \in Users, quotes \in QuoteSeqs :
         DashboardStep(u, quotes)
            => Degrades(SelectByUser(investments, u), quotes, response'.body,
                        ExactLoss(SelectByUser(investments, u)))]_vars

\* C4, amended: the same with profit_loss = -(quantity * buy_price) rounded
\* to 2 decimals.
C4_MissingQuoteRounded ==
    [][\A u \in Users, quotes \in QuoteSeqs :
         DashboardStep(u, quotes)
            => Degrades(SelectByUser(investments, u), quotes, response'.body,
                        RoundedLoss(SelectByUser(investments, u)))]_vars

\* C4's case: a dashboard shows a row without a price (price 0, a loss) next
\* to a row that has one (a value above 0).
C4_Witness ==
    /\ response.op = "dashboard"
    /\ \E i, j \in 1..Len(response.body.investments) :
         /\ response.body.investments[i].current_price = 0
         /\ response.body.investments[i].value = 0
         /\ response.body.investments[i].profit_loss < 0
         /\ response.body.investments[j].value > 0

\* C5: the dashboard's category_values add up to its total_value.
C5_CategoriesSumToTotal ==
    response.op = "dashboard"
       => SumSeq(response.body.category_values) = response.body.total_value

====
